---- MODULE Spec2Model ----
(***************************************************************************)
(* Model of the gologger package (src/gologger.go, src/gologger_syslog.go): *)
(* the process-wide default logger, Init, the severity dispatch `output`,  *)
(* Close, the fatal calls, SetLevel and the Verbosity gate, run by a small *)
(* number of goroutines that share the package lock logLock.               *)
(*                                                                         *)
(* Environment: a primary destination is a sink supplied by the caller     *)
(* (a closable file or a plain buffer), distinct from the process streams  *)
(* os.Stderr and os.Stdout.  A Write fails on a file that was closed and   *)
(* on a destination that has broken (variable broken); destinations break  *)
(* in the runs of SpecFail only.                                           *)
(***************************************************************************)
EXTENDS Integers, Sequences, FiniteSets, Bags, TLC

(* ------------------------------ bounds -------------------------------- *)
MaxInit    == 2      \* Init calls in one run
MaxCalls   == 3      \* output calls in one run
MaxClose   == 2      \* Close calls in one run (those of fatal calls excluded)
MaxReset   == 1      \* init_logger calls after process start
MaxLevel   == 1      \* verbosity levels 0..MaxLevel
MaxUses    == 2      \* Info calls on one Verbose value
SeqCalls   == 2      \* output calls in a run of SpecSeq
ResetInits == 1      \* Init calls in a run of SpecReset
ResetCalls == 2      \* output calls in a run of SpecReset
OneInits   == 1      \* Init calls in a run of SpecOne
OneCalls   == 2      \* output calls in a run of SpecOne
VerbInits  == 1      \* Init calls in a run of SpecVerb
VerbCalls  == 2      \* output calls in a run of SpecVerb
ConcCalls  == 2      \* output calls in a run of SpecConc
FailInits  == 1      \* Init calls in a run of SpecFail
FailCalls  == 2      \* output calls in a run of SpecFail
MaxBroken  == 1      \* destinations that break in a run of SpecFail
LiveInits  == 1      \* Init calls in a run of SpecLive
LiveCalls  == 2      \* output calls in a run of SpecLive
LiveCloses == 1      \* Close calls in a run of SpecLive
MaxSetFlags == 2     \* SetFlags calls in one run

Threads == {1, 2}    \* the goroutines
Levels  == 0..MaxLevel

(* ------------------------- program constants -------------------------- *)
sInfo  == 0
sWarn  == 1
sError == 2
sFatal == 3
Severities == {sInfo, sWarn, sError, sFatal}
Unrecognized == 4    \* a severity value that is none of the four constants

labelInfo  == "[INFO]: "
labelWarn  == "[WARN]: "
labelErr   == "[ERROR]: "
labelFatal == "[FATAL]: "
initText   == "[ERROR]: Logging before logger initiated!\n"
flags      == 21     \* log.Ldate | log.Lmicroseconds | log.Lshortfile
LstdFlags  == 3      \* log.Ldate | log.Ltime
Ldate      == 1
FlagValues == {Ldate, LstdFlags}    \* the arguments of SetFlags

(* ---------------------------- destinations ---------------------------- *)
Stderr == <<"stderr", 0>>
Stdout == <<"stdout", 0>>
File   == <<"file", 1>>      \* a caller's *os.File: io.Writer and io.Closer
Buffer == <<"buffer", 2>>    \* a caller's *bytes.Buffer: io.Writer only
Primaries == {File, Buffer}
SysInfo(n) == <<"syslog.NOTICE", n>>
SysWarn(n) == <<"syslog.WARNING", n>>
SysErr(n)  == <<"syslog.ERR", n>>
LoggerIds == 0..(MaxInit + MaxReset)
SyslogWriters == UNION {{SysInfo(n), SysWarn(n), SysErr(n)} : n \in LoggerIds}
Dests == {Stderr, Stdout} \cup Primaries \cup SyslogWriters
Nil == <<"nil", 0>>

\* w.(io.Closer): which destinations satisfy io.Closer
IsCloser(w) == w = File \/ w \in SyslogWriters

VARIABLES
  loggers,        \* the heap of Logger objects: id -> Logger
  defaultLogger,  \* the package variable defaultLogger (a Logger id)
  logLock,        \* the package mutex: 0 when free, else the holding thread
  pc,             \* position of each thread
  frame,          \* locals of the call each thread is running
  verbose,        \* the Verbose value each thread holds (from Verbosity)
  out,            \* the lines each destination has received (a bag)
  closed,         \* how many times Close was called on each destination
  exitCode,       \* -1 while the process runs, else the os.Exit status
  returned,       \* the Loggers that Init has returned to its callers
  broken,         \* the destinations whose Write returns an error
  hist            \* history: calls made, for stating the properties

vars == <<loggers, defaultLogger, logLock, pc, frame, verbose, out, closed,
          exitCode, returned, broken, hist>>

(* ------------------------------ helpers ------------------------------- *)
RECURSIVE SelectNonNil(_)
SelectNonNil(ws) ==
  IF ws = <<>> THEN <<>>
  ELSE IF Head(ws) = Nil THEN SelectNonNil(Tail(ws))
       ELSE <<Head(ws)>> \o SelectNonNil(Tail(ws))

\* closers that take every non-nil writer, closable or not
MutSelectNonNil(ws) == SelectNonNil(ws)

RECURSIVE SelectClosers(_)
SelectClosers(ws) ==
  IF ws = <<>> THEN <<>>
  ELSE IF Head(ws) # Nil /\ IsCloser(Head(ws))
       THEN <<Head(ws)>> \o SelectClosers(Tail(ws))
       ELSE SelectClosers(Tail(ws))

\* log.New(w, prefix, flags): a channel is its writer list, its prefix and
\* its flags
NewLog(ws, marker, label) ==
  [w |-> ws, marker |-> marker, label |-> label, flags |-> flags]

MutUninitInfoToStdout ==
  [infoLog  |-> NewLog(<<Stdout>>, initText, labelInfo),
   warnLog  |-> NewLog(<<Stderr>>, initText, labelWarn),
   errorLog |-> NewLog(<<Stderr>>, initText, labelErr),
   fatalLog |-> NewLog(<<Stderr>>, initText, labelFatal),
   closers  |-> <<>>,
   initialized |-> FALSE,
   level    |-> 0]

\* the Logger literal of init_logger
UninitLogger ==
  [infoLog  |-> NewLog(<<Stderr>>, initText, labelInfo),
   warnLog  |-> NewLog(<<Stderr>>, initText, labelWarn),
   errorLog |-> NewLog(<<Stderr>>, initText, labelErr),
   fatalLog |-> NewLog(<<Stderr>>, initText, labelFatal),
   closers  |-> <<>>,
   initialized |-> FALSE,
   level    |-> 0]

\* a setup that hands back the writers it made together with the error
MutSetupKeepsWriter(n, ok) ==
  IF ok THEN [il |-> SysInfo(n), wl |-> SysWarn(n), el |-> SysErr(n), err |-> FALSE]
  ELSE [il |-> SysInfo(n), wl |-> Nil, el |-> Nil, err |-> TRUE]

\* setup(name): the three syslog writers of the n-th Logger, or an error
setup(n, ok) ==
  IF ok THEN [il |-> SysInfo(n), wl |-> SysWarn(n), el |-> SysErr(n), err |-> FALSE]
  ELSE [il |-> Nil, wl |-> Nil, el |-> Nil, err |-> TRUE]

NoSyslog == [il |-> Nil, wl |-> Nil, el |-> Nil, err |-> FALSE]

MutInfoAlwaysStdout(logFd, il, verb) == SelectNonNil(<<logFd, il>>) \o <<Stdout>>
MutErrorNoStderr(logFd, el) == SelectNonNil(<<logFd, el>>)

\* the writer lists Init builds (lines 89-106)
InfoWriters(logFd, il, verb) ==
  SelectNonNil(<<logFd, il>>) \o (IF verb THEN <<Stdout>> ELSE <<>>)
WarnWriters(logFd, wl, verb) ==
  SelectNonNil(<<logFd, wl>>) \o (IF verb THEN <<Stdout>> ELSE <<>>)
ErrorWriters(logFd, el) ==
  SelectNonNil(<<logFd, el>>) \o <<Stderr>>

\* a Logger whose closers leave out the syslog writers
MutPrimaryCloserOnly(verb, sl, logFd) ==
  [infoLog  |-> NewLog(InfoWriters(logFd, sl.il, verb), "", labelInfo),
   warnLog  |-> NewLog(WarnWriters(logFd, sl.wl, verb), "", labelWarn),
   errorLog |-> NewLog(ErrorWriters(logFd, sl.el), "", labelErr),
   fatalLog |-> NewLog(ErrorWriters(logFd, sl.el), "", labelFatal),
   closers  |-> SelectClosers(<<logFd>>),
   initialized |-> TRUE,
   level    |-> 0]

\* the Logger value l that Init builds (lines 108-120)
NewLogger(verb, sl, logFd) ==
  [infoLog  |-> NewLog(InfoWriters(logFd, sl.il, verb), "", labelInfo),
   warnLog  |-> NewLog(WarnWriters(logFd, sl.wl, verb), "", labelWarn),
   errorLog |-> NewLog(ErrorWriters(logFd, sl.el), "", labelErr),
   fatalLog |-> NewLog(ErrorWriters(logFd, sl.el), "", labelFatal),
   closers  |-> SelectClosers(<<logFd, sl.il, sl.wl, sl.el>>),
   initialized |-> TRUE,
   level    |-> 0]

\* the switch of output: the channel of a severity
ChannelOf(lg, s) ==
  CASE s = sInfo  -> lg.infoLog
    [] s = sWarn  -> lg.warnLog
    [] s = sError -> lg.errorLog
    [] s = sFatal -> lg.fatalLog

\* the writers bound to the four channels of a Logger
Bound(lg) ==
  UNION {{ChannelOf(lg, s).w[i] : i \in 1..Len(ChannelOf(lg, s).w)} : s \in Severities}

NoFrame == [op |-> "none", l |-> -1, s |-> -1, i |-> 0, pkg |-> FALSE,
            pre |-> FALSE, replace |-> FALSE, wrote |-> FALSE, closeRan |-> FALSE,
            order |-> <<>>, err |-> FALSE, flag |-> 0]
NoVerbose == [enabled |-> FALSE, logger |-> -1, req |-> 0, at |-> 0, uses |-> 0,
              emits |-> 0]

Running == exitCode = -1
NextId == Cardinality(DOMAIN loggers)
\* the callers address a Logger that Init returned, or the default logger
\* through the package-level functions
Package == -1
Targets == returned \cup {Package}
MutResolveNewest(x) == IF x = Package THEN NextId - 1 ELSE x

\* package-level functions that keep the Logger of process start
MutResolveStale(x) == IF x = Package THEN 0 ELSE x

\* the receiver of a call: the package-level functions use defaultLogger
Resolve(x) == IF x = Package THEN defaultLogger ELSE x

Init ==
  /\ loggers = (0 :> UninitLogger)          \* func init() { init_logger() }
  /\ defaultLogger = 0
  /\ logLock = 0
  /\ pc = [t \in Threads |-> "idle"]
  /\ frame = [t \in Threads |-> NoFrame]
  /\ verbose = [t \in Threads |-> NoVerbose]
  /\ out = [d \in Dests |-> EmptyBag]
  /\ closed = [d \in Dests |-> 0]
  /\ exitCode = -1
  /\ returned = {}
  /\ broken = {}
  /\ hist = [nCalls |-> 0, done |-> EmptyBag, nInit |-> 0, nClose |-> 0,
             nReset |-> 0, assigns |-> <<>>, first |-> -1, overlap |-> FALSE,
             args |-> <<>>, fatal |-> {}, closings |-> EmptyBag, closeRet |-> 0,
             syslogErr |-> {}, initLogged |-> EmptyBag, levelSet |-> {},
             nSetFlags |-> 0, flagsOf |-> <<>>, panics |-> 0]

(* ----------------------- output (lines 141-156) ----------------------- *)
\* a thread enters output(s, depth, txt) on Logger l: the call is recorded
BeginOutput(t, op, l, s, pkg, h) ==
  /\ hist.nCalls < MaxCalls
  /\ frame' = [frame EXCEPT ![t] = [NoFrame EXCEPT !.op = op, !.l = l, !.s = s,
                                                   !.pkg = pkg, !.pre = returned # {}]]
  /\ hist' = [h EXCEPT !.nCalls = @ + 1]
  /\ pc' = [pc EXCEPT ![t] = "output_lock"]

\* the line a channel writes: the prefix of the channel (and the text)
Line(l, s, pkg, ch) ==
  [lg |-> l, s |-> s, pkg |-> pkg, marker |-> ch.marker, label |-> ch.label]

\* logLock.Lock() goes on only when no goroutine holds the mutex
LockFree == logLock = 0

MutFatalSkipsClose(op) ==
  CASE op = "Fatal" -> "exit"
    [] op = "Init"  -> "init_lock"
    [] OTHER        -> "idle"

\* where a call continues when output returns
AfterOutput(op) ==
  CASE op = "Fatal" -> "fatal_close"
    [] op = "Init"  -> "init_lock"
    [] OTHER        -> "idle"

MutOutputLockNotAwaited(t) ==
  /\ Running /\ pc[t] = "output_lock"
  /\ logLock' = t
  /\ pc' = [pc EXCEPT ![t] = "output_write"]
  /\ UNCHANGED <<loggers, defaultLogger, frame, verbose, out, closed, exitCode,
                 returned, hist, broken>>

\* line 142: logLock.Lock()
OutputLock(t) ==
  /\ Running /\ pc[t] = "output_lock"
  /\ LockFree
  /\ logLock' = t
  /\ pc' = [pc EXCEPT ![t] = "output_write"]
  /\ UNCHANGED <<loggers, defaultLogger, frame, verbose, out, closed, exitCode,
                 returned, hist, broken>>

\* w.Write(p) returns an error: a destination that has broken, or an
\* *os.File that is closed
WriteFails(d, br, cl) == d \in br \/ (d = File /\ cl[d] > 0)

\* l.xLog.Output(3+depth, txt): io.MultiWriter writes the line to the writers
\* of the channel one after the other and returns at the first Write that
\* fails; output drops the error that Output returns
OutputWrite(t) ==
  /\ Running /\ pc[t] = "output_write"
  /\ frame[t].s \in Severities
  /\ LET f  == frame[t]
         ch == ChannelOf(loggers[f.l], f.s)
         j  == f.i + 1
     IN IF j <= Len(ch.w)
        THEN IF WriteFails(ch.w[j], broken, closed)
             THEN /\ frame' = [frame EXCEPT ![t].i = j, ![t].err = TRUE]
                  /\ pc' = [pc EXCEPT ![t] = "output_unlock"]
                  /\ out' = out
             ELSE /\ out' = [out EXCEPT ![ch.w[j]] =
                                @ (+) SetToBag({Line(f.l, f.s, f.pkg, ch)})]
                  /\ frame' = [frame EXCEPT ![t].i = j]
                  /\ pc' = pc
        ELSE /\ pc' = [pc EXCEPT ![t] = "output_unlock"]
             /\ UNCHANGED <<out, frame>>
  /\ UNCHANGED <<loggers, defaultLogger, logLock, verbose, closed, exitCode,
                 returned, hist, broken>>

\* an output that returns to its caller with the mutex still locked
MutOutputKeepsLock(t) ==
  /\ Running /\ pc[t] = "output_unlock"
  /\ hist' = [hist EXCEPT !.done =
                 @ (+) SetToBag({[lg |-> frame[t].l, s |-> frame[t].s,
                                  pkg |-> frame[t].pkg, pre |-> frame[t].pre]})]
  /\ pc' = [pc EXCEPT ![t] = AfterOutput(frame[t].op)]
  /\ frame' = [frame EXCEPT ![t] = IF AfterOutput(frame[t].op) = "idle" THEN NoFrame
                                   ELSE [@ EXCEPT !.wrote = TRUE]]
  /\ UNCHANGED <<loggers, defaultLogger, logLock, verbose, out, closed, exitCode,
                 returned, broken>>

\* defer logLock.Unlock(), and the return to the caller of output
OutputUnlock(t) ==
  /\ Running /\ pc[t] = "output_unlock"
  /\ logLock' = 0
  /\ hist' = [hist EXCEPT !.done =
                 @ (+) SetToBag({[lg |-> frame[t].l, s |-> frame[t].s,
                                  pkg |-> frame[t].pkg, pre |-> frame[t].pre]}),
                          !.initLogged = IF frame[t].op = "Init"
                                         THEN @ (+) SetToBag({frame[t].l}) ELSE @]
  /\ pc' = [pc EXCEPT ![t] = AfterOutput(frame[t].op)]
  /\ frame' = [frame EXCEPT ![t] = IF AfterOutput(frame[t].op) = "idle" THEN NoFrame
                                   ELSE [@ EXCEPT !.wrote = TRUE]]
  /\ UNCHANGED <<loggers, defaultLogger, verbose, out, closed, exitCode, returned, broken>>

\* a call of l.output(s, depth, txt) from inside the package with any
\* value of the type severity
OutputCall(t, x, s) ==
  /\ Running /\ pc[t] = "idle"
  /\ BeginOutput(t, "output", Resolve(x), s, x = Package, hist)
  /\ UNCHANGED <<loggers, defaultLogger, logLock, verbose, out, closed, exitCode,
                 returned, broken>>

\* the default branch of the switch (lines 153-154): panic(...)
OutputPanic(t) ==
  /\ Running /\ pc[t] = "output_write"
  /\ frame[t].s \notin Severities
  /\ pc' = [pc EXCEPT ![t] = "output_panic"]
  /\ UNCHANGED <<loggers, defaultLogger, logLock, frame, verbose, out, closed,
                 exitCode, returned, hist, broken>>

\* a panic that unwinds output without running the deferred Unlock
MutPanicLeavesLocked(t) ==
  /\ Running /\ pc[t] = "output_panic"
  /\ pc' = [pc EXCEPT ![t] = "panic_unwound"]
  /\ UNCHANGED <<loggers, defaultLogger, logLock, frame, verbose, out, closed,
                 exitCode, returned, hist, broken>>

\* the panic unwinds output: the deferred logLock.Unlock() of line 143 runs
PanicUnlock(t) ==
  /\ Running /\ pc[t] = "output_panic"
  /\ logLock' = 0
  /\ pc' = [pc EXCEPT ![t] = "panic_unwound"]
  /\ UNCHANGED <<loggers, defaultLogger, frame, verbose, out, closed,
                 exitCode, returned, hist, broken>>

\* the panic reaches a caller that recovers: the goroutine goes on
PanicRecover(t) ==
  /\ Running /\ pc[t] = "panic_unwound"
  /\ pc' = [pc EXCEPT ![t] = "idle"]
  /\ frame' = [frame EXCEPT ![t] = NoFrame]
  /\ hist' = [hist EXCEPT !.panics = @ + 1]
  /\ UNCHANGED <<loggers, defaultLogger, logLock, verbose, out, closed,
                 exitCode, returned, broken>>

\* what the Go runtime prints for a panic that nobody recovers
PanicReport(t, f) ==
  [lg |-> f.l, s |-> f.s, pkg |-> f.pkg, marker |-> "panic: ",
   label |-> "[FATAL]: Unrecognized Severity:"]

\* the panic reaches the top of the goroutine: the runtime prints the panic
\* value to standard error and the process exits with status 2
PanicCrash(t) ==
  /\ Running /\ pc[t] = "panic_unwound"
  /\ out' = [out EXCEPT ![Stderr] = @ (+) SetToBag({PanicReport(t, frame[t])})]
  /\ exitCode' = 2
  /\ pc' = [pc EXCEPT ![t] = "exited"]
  /\ UNCHANGED <<loggers, defaultLogger, logLock, frame, verbose, closed,
                 returned, hist, broken>>

\* the environment: destination d breaks, and its Write fails from then on
Break(d) ==
  /\ Running
  /\ d \notin broken
  /\ broken' = broken \cup {d}
  /\ UNCHANGED <<loggers, defaultLogger, logLock, pc, frame, verbose, out, closed,
                 exitCode, returned, hist>>

(* ------------------------- Init (lines 82-134) ------------------------ *)
MutAlwaysReplace(dl) == TRUE

\* the test of line 128 on the Logger that is the default
InitReplacesDefault(dl) == ~dl.initialized

\* lines 83-124: setup, the writer lists, the Logger l, its closers, and the
\* l.Error(syslogErr) that follows when setup failed
InitBuild(t, verb, systemLog, syslogOK, logFd) ==
  /\ Running /\ pc[t] = "idle"
  /\ hist.nInit < MaxInit
  /\ systemLog \/ syslogOK          \* setup fails only when it is called
  /\ LET n  == NextId
         sl == IF systemLog THEN setup(n, syslogOK) ELSE NoSyslog
         h  == [hist EXCEPT !.nInit = @ + 1,
                            !.args = @ @@ (n :> [verbose |-> verb, systemLog |-> systemLog,
                                                 logFd |-> logFd]),
                            !.overlap = @ \/ (~loggers[defaultLogger].initialized /\
                               \E u \in Threads \ {t} : frame[u].op = "Init"),
                            !.syslogErr = IF sl.err THEN @ \cup {n} ELSE @]
     IN /\ loggers' = loggers @@ (n :> NewLogger(verb, sl, logFd))
        /\ IF sl.err
           THEN BeginOutput(t, "Init", n, sError, FALSE, h)
           ELSE /\ frame' = [frame EXCEPT ![t] = [NoFrame EXCEPT !.op = "Init", !.l = n]]
                /\ pc' = [pc EXCEPT ![t] = "init_lock"]
                /\ hist' = h
  /\ UNCHANGED <<defaultLogger, logLock, verbose, out, closed, exitCode, returned, broken>>

MutInitLockNotAwaited(t) ==
  /\ Running /\ pc[t] = "init_lock"
  /\ logLock' = t
  /\ pc' = [pc EXCEPT ![t] = "init_check"]
  /\ UNCHANGED <<loggers, defaultLogger, frame, verbose, out, closed, exitCode,
                 returned, hist, broken>>

\* line 126: logLock.Lock()
InitLock(t) ==
  /\ Running /\ pc[t] = "init_lock"
  /\ LockFree
  /\ logLock' = t
  /\ pc' = [pc EXCEPT ![t] = "init_check"]
  /\ UNCHANGED <<loggers, defaultLogger, frame, verbose, out, closed, exitCode,
                 returned, hist, broken>>

\* line 128: if !defaultLogger.initialized
InitCheck(t) ==
  /\ Running /\ pc[t] = "init_check"
  /\ frame' = [frame EXCEPT ![t].replace = InitReplacesDefault(loggers[defaultLogger])]
  /\ pc' = [pc EXCEPT ![t] = "init_assign"]
  /\ UNCHANGED <<loggers, defaultLogger, logLock, verbose, out, closed, exitCode,
                 returned, hist, broken>>

\* line 129: defaultLogger = &l
InitAssign(t) ==
  /\ Running /\ pc[t] = "init_assign"
  /\ IF frame[t].replace
     THEN /\ defaultLogger' = frame[t].l
          /\ hist' = [hist EXCEPT !.assigns = Append(@, frame[t].l),
                                  !.first = IF @ = -1 THEN frame[t].l ELSE @]
     ELSE /\ defaultLogger' = defaultLogger
          /\ hist' = [hist EXCEPT !.first = IF @ = -1 THEN frame[t].l ELSE @]
  /\ pc' = [pc EXCEPT ![t] = "init_return"]
  /\ UNCHANGED <<loggers, logLock, frame, verbose, out, closed, exitCode, returned, broken>>

\* lines 127, 132: the deferred Unlock and return &l
InitReturn(t) ==
  /\ Running /\ pc[t] = "init_return"
  /\ logLock' = 0
  /\ returned' = returned \cup {frame[t].l}
  /\ frame' = [frame EXCEPT ![t] = NoFrame]
  /\ pc' = [pc EXCEPT ![t] = "idle"]
  /\ UNCHANGED <<loggers, defaultLogger, verbose, out, closed, exitCode, hist, broken>>

\* init_logger (lines 60-67): a fresh stderr-only Logger becomes the default
ResetLogger(t) ==
  /\ Running /\ pc[t] = "idle"
  /\ hist.nReset < MaxReset
  /\ loggers' = loggers @@ (NextId :> UninitLogger)
  /\ defaultLogger' = NextId
  /\ hist' = [hist EXCEPT !.nReset = @ + 1]
  /\ UNCHANGED <<logLock, pc, frame, verbose, out, closed, exitCode, returned, broken>>

(* --------------- the leveled logging surface (178-392) ---------------- *)
\* Info, Warning, Error and their Depth, ln and f forms, on a Logger or on
\* the default logger: one call of output
Log(t, x, s) ==
  /\ Running /\ pc[t] = "idle"
  /\ s \in {sInfo, sWarn, sError}
  /\ BeginOutput(t, "Log", Resolve(x), s, x = Package, hist)
  /\ UNCHANGED <<loggers, defaultLogger, logLock, verbose, out, closed, exitCode,
                 returned, broken>>

\* Fatal, FatalDepth, Fatalln, Fatalf: output, then Close, then os.Exit(1)
Fatal(t, x) ==
  /\ Running /\ pc[t] = "idle"
  /\ BeginOutput(t, "Fatal", Resolve(x), sFatal, x = Package,
                 [hist EXCEPT !.fatal = @ \cup {t}])
  /\ UNCHANGED <<loggers, defaultLogger, logLock, verbose, out, closed, exitCode,
                 returned, broken>>

\* os.Exit(1)
Exit(t) ==
  /\ Running /\ pc[t] = "exit"
  /\ exitCode' = 1
  /\ pc' = [pc EXCEPT ![t] = "exited"]
  /\ UNCHANGED <<loggers, defaultLogger, logLock, frame, verbose, out, closed,
                 returned, broken, hist>>

(* ------------------------ Close (lines 136-176) ----------------------- *)
\* c.Close() returns an error: an *os.File that is closed already
CloseFails(c, n) == c = File /\ n > 0

\* a Close call of a caller
Close(t, x) ==
  /\ Running /\ pc[t] = "idle"
  /\ hist.nClose < MaxClose
  /\ frame' = [frame EXCEPT ![t] = [NoFrame EXCEPT !.op = "Close", !.l = Resolve(x),
                                                   !.pkg = (x = Package)]]
  /\ hist' = [hist EXCEPT !.nClose = @ + 1]
  /\ pc' = [pc EXCEPT ![t] = "close_lock"]
  /\ UNCHANGED <<loggers, defaultLogger, logLock, verbose, out, closed, exitCode,
                 returned, broken>>

\* the l.Close() of a fatal call (lines 334, 366): the package-level forms
\* read defaultLogger again
FatalClose(t) ==
  /\ Running /\ pc[t] = "fatal_close"
  /\ frame' = [frame EXCEPT ![t].l = IF frame[t].pkg THEN defaultLogger ELSE @]
  /\ pc' = [pc EXCEPT ![t] = "close_lock"]
  /\ UNCHANGED <<loggers, defaultLogger, logLock, verbose, out, closed, exitCode,
                 returned, hist, broken>>

\* logLock.Lock()
CloseLock(t) ==
  /\ Running /\ pc[t] = "close_lock"
  /\ LockFree
  /\ logLock' = t
  /\ pc' = [pc EXCEPT ![t] = "close_run"]
  /\ UNCHANGED <<loggers, defaultLogger, frame, verbose, out, closed, exitCode,
                 returned, hist, broken>>

\* does Close go on to the closers (line 167)
CloseProceeds(lg) == lg.initialized

\* the diagnostic of line 173
CloseDiag(c) ==
  [lg |-> -1, s |-> sError, pkg |-> FALSE, marker |-> "",
   label |-> "[ERROR]: Failed to close log"]

\* a loop that returns at the first c.Close() that fails
RECURSIVE MutCloseStopsAtFailure(_, _, _)
MutCloseStopsAtFailure(cs, cl, se) ==
  IF cs = <<>> THEN [closed |-> cl, stderr |-> se, order |-> <<>>]
  ELSE LET c == Head(cs)
       IN IF CloseFails(c, cl[c])
          THEN [closed |-> [cl EXCEPT ![c] = @ + 1],
                stderr |-> se (+) SetToBag({CloseDiag(c)}), order |-> <<c>>]
          ELSE LET r == MutCloseStopsAtFailure(Tail(cs), [cl EXCEPT ![c] = @ + 1], se)
               IN [r EXCEPT !.order = <<c>> \o @]

\* the loop of lines 171-175 over the closers cs, from the close counts cl and
\* the content se of stderr: the resulting counts and content, and the
\* closers in the order in which c.Close() was called on them
RECURSIVE CloseAll(_, _, _)
CloseAll(cs, cl, se) ==
  IF cs = <<>> THEN [closed |-> cl, stderr |-> se, order |-> <<>>]
  ELSE LET c == Head(cs)
           r == CloseAll(Tail(cs), [cl EXCEPT ![c] = @ + 1],
                         IF CloseFails(c, cl[c])
                         THEN se (+) SetToBag({CloseDiag(c)})
                         ELSE se)
       IN [r EXCEPT !.order = <<c>> \o @]

CloseRun(t) ==
  /\ Running /\ pc[t] = "close_run"
  /\ LET lg == loggers[frame[t].l]
         r  == CloseAll(lg.closers, closed, out[Stderr])
     IN IF CloseProceeds(lg)
        THEN /\ closed' = r.closed
             /\ out' = [out EXCEPT ![Stderr] = r.stderr]
             /\ hist' = [hist EXCEPT !.closings = @ (+) SetToBag(
                           {[l |-> frame[t].l, c |-> r.order[i]] :
                              i \in 1..Len(r.order)})]
             /\ frame' = [frame EXCEPT ![t].closeRan = TRUE, ![t].order = r.order]
        ELSE /\ UNCHANGED <<closed, out, hist>>
             /\ frame' = [frame EXCEPT ![t].closeRan = TRUE]
  /\ pc' = [pc EXCEPT ![t] = "close_unlock"]
  /\ UNCHANGED <<loggers, defaultLogger, logLock, verbose, exitCode, returned, broken>>

\* a Close that returns early on an uninitialized Logger, the lock still held
MutCloseReturnsLocked(t) ==
  /\ Running /\ pc[t] = "close_unlock"
  /\ logLock' = IF loggers[frame[t].l].initialized THEN 0 ELSE logLock
  /\ IF frame[t].op = "Fatal"
     THEN /\ pc' = [pc EXCEPT ![t] = "exit"]
          /\ frame' = frame
          /\ hist' = hist
     ELSE /\ pc' = [pc EXCEPT ![t] = "idle"]
          /\ frame' = [frame EXCEPT ![t] = NoFrame]
          /\ hist' = [hist EXCEPT !.closeRet = @ + 1]
  /\ UNCHANGED <<loggers, defaultLogger, verbose, out, closed, exitCode, returned, broken>>

\* the deferred Unlock; a fatal call goes on to os.Exit
CloseUnlock(t) ==
  /\ Running /\ pc[t] = "close_unlock"
  /\ logLock' = 0
  /\ IF frame[t].op = "Fatal"
     THEN /\ pc' = [pc EXCEPT ![t] = "exit"]
          /\ frame' = frame
          /\ hist' = hist
     ELSE /\ pc' = [pc EXCEPT ![t] = "idle"]
          /\ frame' = [frame EXCEPT ![t] = NoFrame]
          /\ hist' = [hist EXCEPT !.closeRet = @ + 1]
  /\ UNCHANGED <<loggers, defaultLogger, verbose, out, closed, exitCode, returned, broken>>

(* --------------- SetLevel and Verbosity (lines 395-445) --------------- *)
\* l.level = lvl, then one info record
SetLevel(t, x, lvl) ==
  /\ Running /\ pc[t] = "idle"
  /\ loggers' = [loggers EXCEPT ![Resolve(x)].level = lvl]
  /\ BeginOutput(t, "SetLevel", Resolve(x), sInfo, x = Package,
                 [hist EXCEPT !.levelSet = @ \cup {Resolve(x)}])
  /\ UNCHANGED <<defaultLogger, logLock, verbose, out, closed, exitCode, returned, broken>>

MutVerboseAlwaysEnabled(lg, l, lvl) == [enabled |-> TRUE, logger |-> l]

\* the Verbose value that l.Verbosity(lvl) returns
NewVerbose(lg, l, lvl) == [enabled |-> lg.level >= lvl, logger |-> l]

Verbosity(t, x, lvl) ==
  /\ Running /\ pc[t] = "idle"
  /\ LET v == NewVerbose(loggers[Resolve(x)], Resolve(x), lvl)
     IN verbose' = [verbose EXCEPT ![t] =
                      [enabled |-> v.enabled, logger |-> v.logger, req |-> lvl,
                       at |-> loggers[Resolve(x)].level, uses |-> 0, emits |-> 0]]
  /\ UNCHANGED <<loggers, defaultLogger, logLock, pc, frame, out, closed, exitCode,
                 returned, hist, broken>>

MutVerboseTracksLevel(v, lgs) == lgs[v.logger].level >= v.req
MutVerboseUngated(v, lgs) == TRUE

\* the test of Verbose.Info, Infoln and Infof on the value v
VerboseLogs(v, lgs) == v.enabled

\* v.Info, v.Infoln, v.Infof
VerboseInfo(t) ==
  /\ Running /\ pc[t] = "idle"
  /\ verbose[t].logger # -1
  /\ verbose[t].uses < MaxUses
  /\ IF VerboseLogs(verbose[t], loggers)
     THEN /\ BeginOutput(t, "Verbose", verbose[t].logger, sInfo, FALSE, hist)
          /\ verbose' = [verbose EXCEPT ![t].uses = @ + 1, ![t].emits = @ + 1]
     ELSE /\ verbose' = [verbose EXCEPT ![t].uses = @ + 1]
          /\ UNCHANGED <<pc, frame, hist>>
  /\ UNCHANGED <<loggers, defaultLogger, logLock, out, closed, exitCode, returned, broken>>

(* ----------------------- SetFlags (lines 447-453) --------------------- *)
MutFlagChannels == <<"infoLog", "warnLog", "errorLog">>

\* the channels SetFlags sets, in the order of its statements
FlagChannels == <<"infoLog", "warnLog", "errorLog", "fatalLog">>

\* a call of SetFlags(f)
SetFlags(t, f) ==
  /\ Running /\ pc[t] = "idle"
  /\ hist.nSetFlags < MaxSetFlags
  /\ frame' = [frame EXCEPT ![t] = [NoFrame EXCEPT !.op = "SetFlags", !.flag = f]]
  /\ hist' = [hist EXCEPT !.nSetFlags = @ + 1,
                          !.flagsOf = (defaultLogger :> f) @@ @]
  /\ pc' = [pc EXCEPT ![t] = "set_flags"]
  /\ UNCHANGED <<loggers, defaultLogger, logLock, verbose, out, closed, exitCode,
                 returned, broken>>

\* one statement defaultLogger.xLog.SetFlags(flag): it reads defaultLogger
\* and takes no lock
SetFlagsStep(t) ==
  /\ Running /\ pc[t] = "set_flags"
  /\ LET j == frame[t].i + 1
     IN /\ loggers' = [loggers EXCEPT ![defaultLogger][FlagChannels[j]].flags =
                                        frame[t].flag]
        /\ IF j < Len(FlagChannels)
           THEN /\ frame' = [frame EXCEPT ![t].i = j]
                /\ pc' = pc
           ELSE /\ frame' = [frame EXCEPT ![t] = NoFrame]
                /\ pc' = [pc EXCEPT ![t] = "idle"]
  /\ UNCHANGED <<defaultLogger, logLock, verbose, out, closed, exitCode, returned,
                 broken, hist>>

(* --------------------------- specifications --------------------------- *)
MainThread == {1}

\* the steps inside a call that has begun
InitSteps(t)   == InitLock(t) \/ InitCheck(t) \/ InitAssign(t) \/ InitReturn(t)
OutputSteps(t) == OutputLock(t) \/ OutputWrite(t) \/ OutputUnlock(t)
CloseSteps(t)  == CloseLock(t) \/ CloseRun(t) \/ CloseUnlock(t)
FatalSteps(t)  == FatalClose(t) \/ Exit(t)

\* the budgets of a run
InitsWithin(n) == hist'.nInit <= n
CallsWithin(n) == hist'.nCalls <= n
ClosesWithin(n) == hist'.nClose <= n

\* One goroutine; Init, Close, Info and the fatal calls on every Logger and
\* on the default logger.
NextSeq ==
  \E t \in MainThread :
    \/ \E systemLog \in BOOLEAN, logFd \in Primaries :
         InitBuild(t, FALSE, systemLog, TRUE, logFd)
    \/ \E x \in Targets : Log(t, x, sInfo) /\ CallsWithin(SeqCalls)
    \/ \E x \in Targets : Fatal(t, x) /\ CallsWithin(SeqCalls)
    \/ \E x \in Targets : Close(t, x)
    \/ InitSteps(t)
    \/ OutputSteps(t)
    \/ CloseSteps(t)
    \/ FatalSteps(t)

SpecSeq == Init /\ [][NextSeq]_vars

\* One goroutine; the package-level calls of every severity around Init and
\* init_logger.
NextReset ==
  \E t \in MainThread :
    \/ \E verb \in BOOLEAN, logFd \in Primaries :
         InitBuild(t, verb, FALSE, TRUE, logFd) /\ InitsWithin(ResetInits)
    \/ ResetLogger(t)
    \/ \E s \in Severities : Log(t, Package, s) /\ CallsWithin(ResetCalls)
    \/ Fatal(t, Package) /\ CallsWithin(ResetCalls)
    \/ InitSteps(t)
    \/ OutputSteps(t)
    \/ CloseSteps(t)
    \/ FatalSteps(t)

SpecReset == Init /\ [][NextReset]_vars

\* One goroutine; the package-level Close and Fatal around Init on a file
\* and init_logger.
NextUninit ==
  \E t \in MainThread :
    \/ InitBuild(t, FALSE, FALSE, TRUE, File) /\ InitsWithin(ResetInits)
    \/ ResetLogger(t)
    \/ Close(t, Package)
    \/ Fatal(t, Package)
    \/ InitSteps(t)
    \/ OutputSteps(t)
    \/ CloseSteps(t)
    \/ FatalSteps(t)

SpecUninit == Init /\ [][NextUninit]_vars

\* One goroutine; two Loggers and the default logger, logged to in turn.
NextRoute ==
  \E t \in MainThread :
    \/ \E verb \in BOOLEAN, logFd \in Primaries : InitBuild(t, verb, FALSE, TRUE, logFd)
    \/ \E x \in Targets, s \in {sInfo, sError} : Log(t, x, s)
    \/ InitSteps(t)
    \/ OutputSteps(t)

SpecRoute == Init /\ [][NextRoute]_vars

\* One goroutine and one Logger of every configuration; the logging calls of
\* every severity.
NextOne ==
  \E t \in MainThread :
    \/ \E verb \in BOOLEAN, systemLog \in BOOLEAN, syslogOK \in BOOLEAN,
          logFd \in Primaries :
         /\ InitBuild(t, verb, systemLog, syslogOK, logFd)
         /\ InitsWithin(OneInits) /\ CallsWithin(OneCalls)
    \/ \E x \in Targets, s \in Severities : Log(t, x, s) /\ CallsWithin(OneCalls)
    \/ \E x \in Targets : Fatal(t, x) /\ CallsWithin(OneCalls)
    \/ InitSteps(t)
    \/ OutputSteps(t)
    \/ CloseSteps(t)
    \/ FatalSteps(t)

SpecOne == Init /\ [][NextOne]_vars

\* One goroutine and one Logger of every configuration on a plain sink; the
\* sink, the system-log writers and the process streams may break.
NextFail ==
  \E t \in MainThread :
    \/ \E verb \in BOOLEAN, systemLog \in BOOLEAN :
         InitBuild(t, verb, systemLog, TRUE, Buffer) /\ InitsWithin(FailInits)
    \/ \E l \in returned : \E d \in Bound(loggers[l]) :
         Break(d) /\ Cardinality(broken) < MaxBroken
    \/ \E x \in returned, s \in {sInfo, sError} :
         Log(t, x, s) /\ CallsWithin(FailCalls)
    \/ InitSteps(t)
    \/ OutputSteps(t)

SpecFail == Init /\ [][NextFail]_vars

\* One goroutine; SetFlags around two Init calls.
NextFlags ==
  \E t \in MainThread :
    \/ InitBuild(t, FALSE, FALSE, TRUE, Buffer)
    \/ \E f \in FlagValues : SetFlags(t, f)
    \/ SetFlagsStep(t)
    \/ InitSteps(t)

SpecFlags == Init /\ [][NextFlags]_vars

\* One goroutine and one Logger; SetLevel, Verbosity and the calls that
\* produce info and warning records.
NextVerb ==
  \E t \in MainThread :
    \/ \E verb \in BOOLEAN :
         InitBuild(t, verb, FALSE, TRUE, Buffer) /\ InitsWithin(VerbInits)
    \/ \E x \in Targets, s \in {sInfo, sWarn} : Log(t, x, s) /\ CallsWithin(VerbCalls)
    \/ \E x \in Targets, lvl \in Levels : SetLevel(t, x, lvl) /\ CallsWithin(VerbCalls)
    \/ \E x \in Targets, lvl \in Levels : Verbosity(t, x, lvl)
    \/ VerboseInfo(t) /\ CallsWithin(VerbCalls)
    \/ InitSteps(t)
    \/ OutputSteps(t)

SpecVerb == Init /\ [][NextVerb]_vars

\* Two goroutines that call Init and log concurrently.
NextConc ==
  \E t \in Threads :
    \/ \E logFd \in Primaries : InitBuild(t, FALSE, FALSE, TRUE, logFd)
    \/ \E x \in Targets, s \in {sInfo, sError} : Log(t, x, s) /\ CallsWithin(ConcCalls)
    \/ InitSteps(t)
    \/ OutputSteps(t)

SpecConc == Init /\ [][NextConc]_vars

\* Two goroutines that call Init and init_logger and log through the
\* package-level functions concurrently.
NextRace ==
  \E t \in Threads :
    \/ InitBuild(t, FALSE, FALSE, TRUE, Buffer)
    \/ ResetLogger(t)
    \/ \E s \in {sInfo, sError} : Log(t, Package, s) /\ CallsWithin(ConcCalls)
    \/ InitSteps(t)
    \/ OutputSteps(t)

SpecRace == Init /\ [][NextRace]_vars

\* Two goroutines that call Init and SetFlags and log through the
\* package-level functions concurrently.
NextFlagRace ==
  \E t \in Threads :
    \/ InitBuild(t, FALSE, FALSE, TRUE, Buffer) /\ InitsWithin(OneInits)
    \/ \E f \in FlagValues : SetFlags(t, f)
    \/ SetFlagsStep(t)
    \/ Log(t, Package, sInfo) /\ CallsWithin(ConcCalls)
    \/ InitSteps(t)
    \/ OutputSteps(t)

SpecFlagRace == Init /\ [][NextFlagRace]_vars

\* Two goroutines that call Init, with and without syslog, and log through
\* the package-level functions concurrently.
NextWired ==
  \E t \in Threads :
    \/ \E systemLog \in BOOLEAN, syslogOK \in BOOLEAN, logFd \in Primaries :
         InitBuild(t, FALSE, systemLog, syslogOK, logFd) /\ CallsWithin(ConcCalls)
    \/ \E s \in {sInfo, sError} : Log(t, Package, s) /\ CallsWithin(ConcCalls)
    \/ InitSteps(t)
    \/ OutputSteps(t)

SpecWired == Init /\ [][NextWired]_vars

\* Two goroutines that call Init, log through the package-level functions
\* and call output from inside the package with an unrecognized severity.
SeverityValues == Severities \cup {Unrecognized}
NextPanic ==
  \E t \in Threads :
    \/ InitBuild(t, FALSE, FALSE, TRUE, Buffer) /\ InitsWithin(OneInits)
    \/ \E x \in Targets, s \in SeverityValues \ {sFatal} :
         OutputCall(t, x, s) /\ CallsWithin(MaxCalls)
    \/ Log(t, Package, sInfo) /\ CallsWithin(MaxCalls)
    \/ InitSteps(t)
    \/ OutputSteps(t)
    \/ OutputPanic(t)
    \/ PanicUnlock(t)
    \/ PanicRecover(t)
    \/ PanicCrash(t)

SpecPanic == Init /\ [][NextPanic]_vars

\* Two goroutines that call Init (with syslog unavailable, so that Init logs
\* an error), Info, SetLevel and Close concurrently, under a fair scheduler:
\* a goroutine that can take a step takes one, and a goroutine that waits in
\* Lock gets the mutex when it is free again and again (sync.Mutex hands a
\* starving waiter the mutex).
NextLive ==
  \E t \in Threads :
    \/ \E systemLog \in BOOLEAN :
         /\ InitBuild(t, FALSE, systemLog, ~systemLog, File)
         /\ InitsWithin(LiveInits) /\ CallsWithin(LiveCalls)
    \/ Log(t, Package, sInfo) /\ CallsWithin(LiveCalls)
    \/ SetLevel(t, Package, MaxLevel) /\ CallsWithin(LiveCalls)
    \/ Close(t, Package) /\ ClosesWithin(LiveCloses)
    \/ InitSteps(t)
    \/ OutputSteps(t)
    \/ CloseSteps(t)

Fairness ==
  \A t \in Threads :
    /\ WF_vars(InitCheck(t) \/ InitAssign(t) \/ InitReturn(t))
    /\ WF_vars(OutputWrite(t) \/ OutputUnlock(t))
    /\ WF_vars(CloseRun(t) \/ CloseUnlock(t))
    /\ SF_vars(InitLock(t) \/ OutputLock(t) \/ CloseLock(t))

SpecLive == Init /\ [][NextLive]_vars /\ Fairness

(* ------------------------------ properties ---------------------------- *)
InitLoggers   == {l \in DOMAIN loggers : loggers[l].initialized}
UninitLoggers == DOMAIN loggers \ InitLoggers
InInit        == {t \in Threads : frame[t].op = "Init"}
\* the lines of Logger l at severity s that destination d holds
Lines(d, l, s) ==
  BagCardinality([x \in {y \in DOMAIN out[d] : y.lg = l /\ y.s = s} |-> out[d][x]])
\* the output calls on Logger l at severity s that have returned
Done(l, s) ==
  BagCardinality([k \in {y \in DOMAIN hist.done : y.lg = l /\ y.s = s} |-> hist.done[k]])
\* a thread is inside output on Logger l at severity s
InOutput(l, s) ==
  \E t \in Threads : /\ pc[t] \in {"output_write", "output_unlock"}
                     /\ frame[t].l = l /\ frame[t].s = s
LabelOf(s) ==
  CASE s = sInfo  -> labelInfo
    [] s = sWarn  -> labelWarn
    [] s = sError -> labelErr
    [] s = sFatal -> labelFatal

\* C1: from the pristine default logger and without a reset, the default
\* logger is replaced exactly once, by the Logger of the first Init call, and
\* no later Init call changes it, also after the default logger was closed.
C1_DefaultReplacedOnce ==
  /\ Len(hist.assigns) <= 1
  /\ hist.first = -1 => defaultLogger = 0 /\ hist.assigns = <<>> /\ returned = {}
  /\ hist.first # -1 => /\ hist.first = 1
                        /\ defaultLogger = 1
                        /\ hist.assigns = <<1>>
  /\ returned # {} => 1 \in returned

\* a second Init about to return, after the default logger was closed
C1_Witness ==
  /\ pc[1] = "init_return" /\ frame[1].l = 2
  /\ closed[hist.args[1].logFd] >= 1
  /\ defaultLogger = 1

\* C2: when goroutines call Init concurrently while the default logger is
\* uninitialized, exactly one of their Loggers becomes the default (that of
\* the call that takes the lock first), each call returns its own Logger, and
\* the default is never assigned twice nor left uninitialized once a call
\* has returned.
C2_ConcurrentInit ==
  /\ Len(hist.assigns) <= 1
  /\ returned # {} => /\ loggers[defaultLogger].initialized
                      /\ hist.assigns = <<defaultLogger>>
                      /\ defaultLogger = hist.first
                      /\ defaultLogger \in returned
  /\ Cardinality(returned) = hist.nInit - Cardinality(InInit)
  /\ \A t \in InInit, u \in InInit : t # u => frame[t].l # frame[u].l
  /\ \A t \in InInit : frame[t].l \notin returned

\* two Init calls that overlapped while the default was uninitialized have
\* both returned
C2_Witness == hist.overlap /\ Cardinality(returned) = 2 /\ InInit = {}

\* the calls of the scenario of TestInit: one Info on each of the two
\* Loggers and one on the default logger, after both Init calls
ThreeInfos ==
  /\ returned = {1, 2} /\ InInit = {}
  /\ hist.args[1].logFd # hist.args[2].logFd
  /\ hist.nCalls = 3
  /\ \E l \in DOMAIN loggers :
       hist.done = SetToBag({[lg |-> 1, s |-> sInfo, pkg |-> FALSE, pre |-> TRUE],
                             [lg |-> 2, s |-> sInfo, pkg |-> FALSE, pre |-> TRUE],
                             [lg |-> l, s |-> sInfo, pkg |-> TRUE, pre |-> TRUE]})

\* C3: two Init calls return distinct, independent Loggers: a record of one
\* Logger is never written to the primary destination of the other, a record
\* of a package-level call goes to the primary destination of the first
\* Init's Logger only, and after one Info on each Logger and one on the
\* default logger the first destination holds 2 lines and the second 1.
C3_IndependentLoggers ==
  /\ Cardinality(returned) = hist.nInit - Cardinality(InInit)
  /\ \A d \in Primaries : \A x \in DOMAIN out[d] :
       /\ x.lg \in InitLoggers /\ hist.args[x.lg].logFd = d
       /\ x.pkg => x.lg = hist.first
  /\ ThreeInfos => /\ BagCardinality(out[hist.args[1].logFd]) = 2
                   /\ BagCardinality(out[hist.args[2].logFd]) = 1

C3_Witness ==
  /\ ThreeInfos
  /\ BagCardinality(out[hist.args[1].logFd]) = 2
  /\ BagCardinality(out[hist.args[2].logFd]) = 1

\* C4: a record of any severity logged through the default logger before any
\* Init call, at process start or after a reset, is written to standard error
\* and nowhere else, with the uninitialized marker and the label of its
\* severity.
C4_UninitToStderr ==
  /\ hist.nInit = 0 => defaultLogger \in UninitLoggers
  /\ \A d \in Dests : \A x \in DOMAIN out[d] :
       x.lg \in UninitLoggers =>
         d = Stderr /\ x.marker = initText /\ x.label = LabelOf(x.s)
  /\ \A l \in UninitLoggers, s \in Severities :
       ~InOutput(l, s) => Lines(Stderr, l, s) = Done(l, s)

\* a fatal record logged after Init and a later reset
C4_Witness ==
  /\ 1 \in InitLoggers /\ 1 \in returned
  /\ defaultLogger = 2 /\ 2 \in UninitLoggers
  /\ Lines(Stderr, 2, sFatal) = 1 /\ Done(2, sFatal) = 1

\* C5: a second Close on the same Logger does no work: over any sequence of
\* Close calls a Logger closes each of its resources at most once, and so a
\* later Close finds nothing to close and writes no diagnostic.
C5_SecondCloseNoWork ==
  \A l \in DOMAIN loggers, c \in Dests :
    CopiesIn([l |-> l, c |-> c], hist.closings) <= 1

\* C6: a fatal call writes its record, then closes the resources of the
\* Logger, then exits with status 1; it does so whether or not a resource
\* fails to close or the Logger is uninitialized, it is never blocked on the
\* way, and it never returns to its caller.
C6_FatalOrder ==
  /\ exitCode \in {-1, 1}
  /\ exitCode = 1 => \E t \in Threads : pc[t] = "exited"
  /\ \A t \in hist.fatal :
       /\ pc[t] # "idle" /\ frame[t].op = "Fatal"
       /\ pc[t] # "exited" => ENABLED (OutputSteps(t) \/ CloseSteps(t) \/ FatalSteps(t))
       /\ (frame[t].wrote /\ ~frame[t].err) => Lines(Stderr, frame[t].l, sFatal) >= 1
       /\ pc[t] \in {"fatal_close", "close_lock", "close_run"} =>
            frame[t].wrote /\ ~frame[t].closeRan
       /\ pc[t] \in {"close_unlock", "exit", "exited"} =>
            /\ frame[t].wrote /\ frame[t].closeRan
            /\ \A i \in 1..Len(loggers[frame[t].l].closers) :
                 closed[loggers[frame[t].l].closers[i]] >= 1
  /\ \A t \in Threads : pc[t] \in {"fatal_close", "exit", "exited"} => t \in hist.fatal

\* a fatal call has exited although its Close failed on the file, which an
\* earlier Close had closed
C6_Witness ==
  /\ exitCode = 1
  /\ hist.nClose = 1 /\ closed[File] = 2
  /\ CopiesIn(CloseDiag(File), out[Stderr]) = 1

\* C7: output is mutually exclusive across all Loggers: at most one thread
\* is writing a record at any time, and it holds the lock, so the writes of
\* one record are never interleaved with those of another.
C7_OutputExclusive ==
  /\ Cardinality({t \in Threads : pc[t] \in {"output_write", "output_unlock"}}) <= 1
  /\ \A t \in Threads : pc[t] \in {"output_write", "output_unlock"} => logLock = t

\* one thread has written part of an error record of one Logger while the
\* other waits to write a record of another Logger
C7_Witness ==
  /\ pc[1] = "output_write" /\ frame[1].s = sError /\ frame[1].i = 1
  /\ pc[2] = "output_lock" /\ frame[2].l # frame[1].l
  /\ {frame[1].l, frame[2].l} \subseteq InitLoggers

\* C8: a Logger built with verbose=false never writes an info or warning
\* record to standard output; one built with verbose=true writes each of
\* them to standard output and to its primary destination.
C8_VerboseStdout ==
  \A l \in InitLoggers, s \in {sInfo, sWarn} :
    /\ ~hist.args[l].verbose => Lines(Stdout, l, s) = 0
    /\ hist.args[l].verbose /\ ~InOutput(l, s) =>
         /\ Lines(Stdout, l, s) = Done(l, s)
         /\ Lines(hist.args[l].logFd, l, s) = Done(l, s)

\* a verbose Logger has written two info records, one of them through a
\* Verbose value
C8_Witness ==
  \E l \in InitLoggers :
    /\ hist.args[l].verbose
    /\ Done(l, sInfo) = 2 /\ Lines(Stdout, l, sInfo) = 2
    /\ verbose[1].logger = l /\ verbose[1].emits = 1

\* C9: for every Logger built by Init, whatever its flags, each error or
\* fatal record is written once to standard error and once to the primary
\* destination and never to standard output.
C9_ErrorsToStderr ==
  \A l \in InitLoggers, s \in {sError, sFatal} :
    /\ Lines(Stdout, l, s) = 0
    /\ ~InOutput(l, s) => /\ Lines(Stderr, l, s) = Done(l, s)
                          /\ Lines(hist.args[l].logFd, l, s) = Done(l, s)

\* one Error call on a Logger without system log and verbose, whose primary
\* destination is a plain sink
C9_Witness ==
  \E l \in InitLoggers :
    /\ hist.args[l] = [verbose |-> FALSE, systemLog |-> FALSE, logFd |-> Buffer]
    /\ hist.nCalls = 1 /\ Done(l, sError) = 1
    /\ BagCardinality(out[Stderr]) = 1 /\ out[Stdout] = EmptyBag

\* C10: a Verbose value made with threshold T on a Logger whose level was L
\* emits a record on each Info call iff L >= T, whatever SetLevel does later.
C10_VerbosityFixed ==
  \A t \in Threads :
    verbose[t].logger # -1 =>
      /\ verbose[t].enabled <=> (verbose[t].at >= verbose[t].req)
      /\ verbose[t].emits = IF verbose[t].at >= verbose[t].req THEN verbose[t].uses ELSE 0

\* Info was called on a Verbose value after SetLevel moved the level of its
\* Logger across the threshold
C10_Witness ==
  \E t \in Threads :
    /\ verbose[t].logger # -1 /\ verbose[t].uses >= 1
    /\ (loggers[verbose[t].logger].level >= verbose[t].req) # (verbose[t].at >= verbose[t].req)

\* C11: Close on an initialized Logger calls Close on the resources of its
\* closer list in insertion order; a resource that fails to close costs one
\* diagnostic on standard error and the resources after it are closed all the
\* same; every Close call returns to its caller, and no thread that is
\* outside a critical section holds the lock.
C11_CloseBestEffort ==
  /\ \A t \in Threads :
       /\ (frame[t].closeRan /\ loggers[frame[t].l].initialized) =>
            /\ frame[t].order = loggers[frame[t].l].closers
            /\ \A i \in 1..Len(frame[t].order) : closed[frame[t].order[i]] >= 1
       /\ pc[t] \in {"idle", "close_lock", "exit", "exited"} => logLock # t
       /\ pc[t] = "close_unlock" => logLock = t /\ ENABLED CloseUnlock(t)
  /\ CopiesIn(CloseDiag(File), out[Stderr]) = IF closed[File] > 1 THEN closed[File] - 1 ELSE 0
  /\ hist.closeRet + Cardinality({t \in Threads : frame[t].op = "Close"}) = hist.nClose

\* a Close has returned that failed on the file, first of four closers, and
\* went on to close the three system-log writers
C11_Witness ==
  \E l \in InitLoggers :
    /\ loggers[l].closers = <<File, SysInfo(l), SysWarn(l), SysErr(l)>>
    /\ CopiesIn([l |-> l, c |-> File], hist.closings) = 1
    /\ CopiesIn([l |-> l, c |-> SysErr(l)], hist.closings) = 1
    /\ closed[File] = 2 /\ closed[SysErr(l)] = 1
    /\ CopiesIn(CloseDiag(File), out[Stderr]) = 1
    /\ hist.closeRet = 2 /\ pc[1] = "idle" /\ logLock = 0

\* C12: when Init is called with system log enabled and setup fails, the
\* Logger is initialized and works, no system-log writer is bound to a
\* channel or put in the closer list, exactly one error record is written by
\* Init through the error channel of the new Logger (primary destination and
\* standard error) before Init goes on to return, and the Logger becomes the
\* default iff no Init came before it.
C12_SyslogFailure ==
  /\ \A l \in DOMAIN hist.args :
       CopiesIn(l, hist.initLogged) <= (IF l \in hist.syslogErr THEN 1 ELSE 0)
  /\ \A l \in hist.syslogErr :
       /\ hist.args[l].systemLog /\ loggers[l].initialized
       /\ Bound(loggers[l]) \cap SyslogWriters = {}
       /\ loggers[l].errorLog.w = <<hist.args[l].logFd, Stderr>>
       /\ \A i \in 1..Len(loggers[l].closers) : loggers[l].closers[i] = hist.args[l].logFd
       /\ \A t \in Threads :
            (frame[t].op = "Init" /\ frame[t].l = l /\ pc[t] \notin {"output_lock", "output_write", "output_unlock"}) =>
              /\ frame[t].wrote /\ CopiesIn(l, hist.initLogged) = 1
              /\ Lines(Stderr, l, sError) = 1
              /\ Lines(hist.args[l].logFd, l, sError) = 1
       /\ l \in returned =>
            /\ CopiesIn(l, hist.initLogged) = 1
            /\ (defaultLogger = l) <=> (hist.first = l)
            /\ \A s \in Severities :
                 ~InOutput(l, s) => Lines(hist.args[l].logFd, l, s) = Done(l, s)

\* Init has returned a Logger after setup failed; it is the default, holds
\* the error record of Init and has written an info record since
C12_Witness ==
  \E l \in hist.syslogErr \cap returned :
    /\ defaultLogger = l
    /\ Lines(Stderr, l, sError) = 1 /\ Done(l, sError) = 1
    /\ Lines(hist.args[l].logFd, l, sInfo) = 1 /\ Done(l, sInfo) = 1

C14_DisabledNoOp ==
  [][\A t \in Threads :
       (/\ ~verbose[t].enabled
        /\ verbose'[t].logger = verbose[t].logger
        /\ verbose'[t].uses = verbose[t].uses + 1) =>
         /\ UNCHANGED <<loggers, defaultLogger, logLock, out, closed, exitCode,
                        returned, hist, broken>>
         /\ pc'[t] = "idle" /\ frame'[t] = NoFrame]_vars

\* Info was called on a disabled Verbose value of a Logger of Init, and no
\* destination holds a line
C14_Witness ==
  \E t \in Threads :
    /\ verbose[t].logger \in InitLoggers
    /\ ~verbose[t].enabled /\ verbose[t].uses = 1
    /\ pc[t] = "idle" /\ logLock = 0
    /\ \A d \in Dests : out[d] = EmptyBag

\* C15: Close on a Logger whose initialized flag is false (the default
\* logger at process start or after a reset, reached through the
\* package-level Close or through a fatal call) closes no resource, writes
\* nothing, changes neither the Loggers nor the default logger, and returns
\* with the lock released and without ending the process itself.
C15_CloseUninitialized ==
  [][\A t \in Threads :
       (/\ pc[t] \in {"close_lock", "close_run", "close_unlock"}
        /\ ~loggers[frame[t].l].initialized
        /\ pc'[t] # pc[t]) =>
         /\ UNCHANGED <<loggers, defaultLogger, out, closed, exitCode, returned, broken>>
         /\ pc[t] = "close_unlock" =>
              /\ logLock' = 0
              /\ pc'[t] = IF frame[t].op = "Fatal" THEN "exit" ELSE "idle"]_vars

\* the package-level Close has returned twice on an uninitialized default
\* logger, once of them after Init and a reset; the file of the Logger
\* of Init was never closed
C15_Witness ==
  /\ hist.nReset = 1 /\ defaultLogger \in UninitLoggers
  /\ 1 \in InitLoggers /\ hist.args[1].logFd = File
  /\ hist.closeRet = 2 /\ closed[File] = 0
  /\ pc[1] = "idle" /\ logLock = 0

\* C16: every output call on a Logger delivers the record once to every
\* destination bound to the channel of its severity, whatever the state of
\* the other destinations: a bound destination whose own Write does not fail
\* holds one line for every call that has returned.
C16_EveryBoundDestination ==
  \A l \in InitLoggers, s \in Severities :
    ~InOutput(l, s) =>
      \A d \in {ChannelOf(loggers[l], s).w[i] : i \in 1..Len(ChannelOf(loggers[l], s).w)} :
        ~WriteFails(d, broken, closed) => Lines(d, l, s) = Done(l, s)

\* the flags of the four channels of a Logger
FlagsOf(lg) == {ChannelOf(lg, s).flags : s \in Severities}

\* C17: SetFlags(f) sets the flags of the four channels of the Logger that is
\* the default when it is called and of no other Logger: once the call has
\* returned, every Logger carries on all four channels the flags of the last
\* SetFlags call made while it was the default, or those of its construction;
\* so the Logger that Init installs does not inherit the flags set on the
\* uninitialized default.
C17_SetFlagsDefaultOnly ==
  (\A t \in Threads : pc[t] # "set_flags") =>
    \A l \in DOMAIN loggers :
      FlagsOf(loggers[l]) = {IF l \in DOMAIN hist.flagsOf THEN hist.flagsOf[l] ELSE flags}

\* SetFlags was called before the first Init and again after the second:
\* the uninitialized Logger, the default and the second Logger of Init each
\* carry other flags
C17_Witness ==
  /\ \A t \in Threads : pc[t] = "idle"
  /\ returned = {1, 2} /\ defaultLogger = 1
  /\ FlagsOf(loggers[0]) = {LstdFlags}
  /\ FlagsOf(loggers[1]) = {Ldate}
  /\ FlagsOf(loggers[2]) = {flags}

\* C18: defaultLogger is assigned only while the lock is held by the thread
\* that assigns it, in Init and in the reset alike, so that no assignment
\* happens outside a critical section or during the critical section of
\* another thread.
C18_DefaultAssignedUnderLock ==
  [][defaultLogger' # defaultLogger =>
       /\ logLock \in Threads
       /\ pc[logLock] = "init_assign" /\ pc'[logLock] = "init_return"]_vars

\* C19: the channels of a Logger and its initialized flag are read and
\* written only by a thread that holds the lock: output, Close and the check
\* of Init read them inside their critical sections, and a step that
\* changes a channel of a Logger, as SetFlags does, is made by the thread
\* that holds the lock.
C19_ChannelsUnderLock ==
  [][/\ \A t \in Threads :
          pc[t] \in {"output_write", "init_check", "close_run"} => logLock = t
     /\ \A l \in DOMAIN loggers :
          (\E s \in Severities : ChannelOf(loggers'[l], s) # ChannelOf(loggers[l], s)) =>
            /\ logLock \in Threads
            /\ pc[logLock] = "set_flags"]_vars

\* the destinations of channel s of a Logger
WritersOf(lg, s) == {ChannelOf(lg, s).w[i] : i \in 1..Len(ChannelOf(lg, s).w)}
\* the syslog writers the Init call of Logger l obtained
SyslogOf(l) ==
  IF hist.args[l].systemLog /\ l \notin hist.syslogErr
  THEN {SysInfo(l), SysWarn(l), SysErr(l)} ELSE {}
FullyWired(l) ==
  LET lg == loggers[l]
      cs == {lg.closers[i] : i \in 1..Len(lg.closers)}
  IN /\ \A s \in Severities : hist.args[l].logFd \in WritersOf(lg, s)
     /\ Stderr \in WritersOf(lg, sError) /\ Stderr \in WritersOf(lg, sFatal)
     /\ cs = {d \in {hist.args[l].logFd} \cup SyslogOf(l) : IsCloser(d)}
     /\ cs = {d \in Bound(lg) : IsCloser(d)}

\* C20: whenever the default logger is marked initialized it is fully wired:
\* each of its four channels is bound to its primary destination, its error
\* and fatal channels are bound to standard error, and its closers are all
\* the closable destinations among its primary destination and its syslog
\* writers; no thread finds an initialized default logger partly built.
C20_InitializedIsWired ==
  loggers[defaultLogger].initialized => FullyWired(defaultLogger)

\* a goroutine is inside output on the default logger, which was built with
\* syslog writers, while the other goroutine is inside Init
C20_Witness ==
  /\ loggers[defaultLogger].initialized
  /\ SyslogOf(defaultLogger) # {}
  /\ \E t \in Threads, u \in Threads :
       /\ pc[t] = "output_write" /\ frame[t].pkg /\ frame[t].l = defaultLogger
       /\ u # t /\ frame[u].op = "Init"

\* the closers the Init call of Logger l has to collect, in order
ExpectedClosers(l) ==
  (IF IsCloser(hist.args[l].logFd) THEN <<hist.args[l].logFd>> ELSE <<>>) \o
  (IF SyslogOf(l) # {} THEN <<SysInfo(l), SysWarn(l), SysErr(l)>> ELSE <<>>)

\* C21: the closers of every Logger that Init built are exactly the closable
\* destinations among its primary writer and its syslog info, warning and
\* error writers, in that order and each once; os.Stderr and os.Stdout, which
\* Init appends to the writer lists, are not among them, and neither is a
\* primary writer that is not closable.
C21_ClosersExact ==
  \A l \in DOMAIN hist.args :
    LET cs == loggers[l].closers
    IN /\ cs = ExpectedClosers(l)
       /\ \A i \in 1..Len(cs), j \in 1..Len(cs) : i # j => cs[i] # cs[j]
       /\ \A i \in 1..Len(cs) : cs[i] \notin {Stderr, Stdout, Buffer, Nil}

\* Init has returned a verbose Logger on a closable primary writer with
\* syslog writers: four closers, while os.Stderr and os.Stdout are bound
C21_Witness ==
  \E l \in returned :
    /\ hist.args[l].verbose /\ hist.args[l].logFd = File
    /\ Len(loggers[l].closers) = 4
    /\ {Stderr, Stdout} \subseteq Bound(loggers[l])

\* a goroutine is inside an output call with an unrecognized severity
BadCall(t) == frame[t].op = "output" /\ frame[t].s \notin Severities

\* C22: an output call with a severity outside info, warning, error and
\* fatal panics: it writes to no channel and no destination, and the lock it
\* took is released when the panic unwinds output, so that the lock is free
\* for the next logging call of any goroutine.
C22_PanicWritesNothing ==
  [][\A t \in Threads :
       BadCall(t) =>
         /\ pc[t] \in {"output_lock", "output_write", "output_panic", "panic_unwound"}
         /\ pc[t] = "output_lock" => pc'[t] \in {"output_lock", "output_write"}
         /\ pc[t] = "output_write" => pc'[t] \in {"output_write", "output_panic"}
         /\ pc[t] = "output_panic" => pc'[t] \in {"output_panic", "panic_unwound"}
         /\ (pc[t] # "panic_unwound" /\ pc'[t] # pc[t]) => out' = out
         /\ pc[t] \in {"output_write", "output_panic"} => logLock = t
         /\ pc[t] = "panic_unwound" => logLock # t
         /\ pc'[t] = "panic_unwound" => logLock' # t
         /\ \A d \in Dests : \A x \in DOMAIN out[d] :
              (x.lg = frame[t].l /\ x.s = frame[t].s) => x.marker = "panic: "]_vars

\* after a recovered panic of one goroutine, the other goroutine has taken the
\* lock in a later logging call and writes its record
C22_Witness ==
  /\ hist.panics >= 1
  /\ \E u \in Threads : /\ pc[u] = "output_write" /\ logLock = u
                         /\ frame[u].s \in Severities /\ frame[u].i >= 1
  /\ \A d \in Dests : \A x \in DOMAIN out[d] : x.s \in Severities

\* the positions where a goroutine waits in logLock.Lock()
LockPositions == {"init_lock", "output_lock", "close_lock"}

\* C23: no operation takes the lock while it holds it and every operation
\* that took it has released it when it returns; under a fair scheduler
\* every Init, non-fatal logging call, SetLevel and Close of concurrent
\* goroutines returns.
C23_EveryCallReturns ==
  /\ [](\A t \in Threads : pc[t] \in LockPositions \cup {"idle"} => logLock # t)
  /\ \A t \in Threads :
       (pc[t] # "idle" /\ frame[t].op \in {"Init", "Log", "SetLevel", "Close"})
         ~> (pc[t] = "idle")

\* an Init that has logged the syslog error waits for the lock, which the
\* other goroutine holds inside Close
C23_Witness ==
  \E t \in Threads, u \in Threads :
    /\ pc[t] = "init_lock" /\ frame[t].op = "Init" /\ frame[t].wrote
    /\ frame[t].l \in hist.syslogErr
    /\ logLock = u /\ frame[u].op = "Close"

\* goroutine t is inside a package-level logging call
InPackageCall(t) ==
  /\ pc[t] \in {"output_lock", "output_write", "output_unlock"}
  /\ frame[t].op = "Log" /\ frame[t].pkg

\* C24: without a reset, a package-level logging call that begins after an
\* Init call has returned (the first Init has then installed its Logger) is
\* written through the Logger of the first Init and carries no marker of
\* the uninitialized logger; once that Logger is installed, only a
\* package-level call that began before any Init returned, and so overlaps
\* the first Init, is still written through the uninitialized logger.
C24_AfterInitThroughInstalled ==
  /\ \A t \in Threads :
       InPackageCall(t) =>
         /\ frame[t].pre => /\ frame[t].l = hist.first
                            /\ frame[t].l = defaultLogger
                            /\ loggers[frame[t].l].initialized
                            /\ ChannelOf(loggers[frame[t].l], frame[t].s).marker = ""
         /\ (hist.first # -1 /\ ~loggers[frame[t].l].initialized) => ~frame[t].pre
  /\ \A k \in DOMAIN hist.done : (k.pkg /\ k.pre) => k.lg = hist.first
  /\ \A d \in Dests : \A x \in DOMAIN out[d] :
       /\ (x.pkg /\ x.marker = initText) => x.lg = 0
       /\ (hist.first # -1 /\ x.lg = hist.first) => x.marker = ""

\* after the first Init returned and a package-level call that began later
\* was written through its Logger, a package-level call that overlapped the
\* Init writes through the uninitialized logger
C24_Witness ==
  /\ returned # {} /\ hist.first \in returned
  /\ \E k \in DOMAIN hist.done : k.pkg /\ k.pre /\ k.lg = hist.first
  /\ \E t \in Threads :
       /\ InPackageCall(t) /\ pc[t] = "output_write" /\ frame[t].i >= 1
       /\ frame[t].l = 0 /\ ~frame[t].pre

====
